---- MODULE Spec2Model ----
(***************************************************************************)
(* TweetLikeArchiver: the collector (like_retriever/fetch_likes.py) that   *)
(* merges the identifiers scraped from the likes page into the ledger file *)
(* liked_tweet_ids.txt, and the processor (archive_all_likes.py) that      *)
(* archives the ledger entries newer than the checkpoint file             *)
(* last_archived_id.txt.                                                   *)
(***************************************************************************)
EXTENDS Integers, Sequences, FiniteSets, TLC

VARIABLES
    feed,                     \* the likes page, newest like first
    ledgerFile,               \* liked_tweet_ids.txt: [exists, lines]
    stateFile,                \* last_archived_id.txt: [exists, content]
    pc,                       \* where the running script is
    already_saved_tweet_ids,  \* TwitterScraper.already_saved_tweet_ids
    tweet_ids_this_run,       \* TwitterScraper.tweet_ids_this_run (keys, in order)
    new_ids,                  \* scroll_and_extract: the last batch extracted
    view,                     \* index in feed of the first tweet element in the DOM
    exitReason,               \* how the last scroll_and_extract left its loop
    stalled,                  \* consecutive passes of the loop that added nothing
                              \* to tweet_ids_this_run
    near_bottom,              \* scroll_and_extract: the test of line 263 in the last pass
    pass_raised,              \* scroll_and_extract: the last pass raised an Exception
    scroll_count,             \* scroll_and_extract: the passes of the loop completed
    persist_error,            \* how the first write of the ledger file or of the
                              \* checkpoint file that did not finish reached the
                              \* caller of the save
    given,                    \* the ledger and the two batches a merge is tried on
    steps,                    \* archive_tweet: how the steps of its last call in the
                              \* running main ended
    chain,                    \* run_archive.main: its options and the line it is at
    otherFile,                \* a second ledger file, other.txt: [exists, lines]
    started,                  \* the collector run: its entry point and the ledger
                              \* file F it was started for
    tweet_ids,                \* main: the pending list
    i,                        \* main: the loop index (1-based)
    new_archives,             \* main: the success counter
    printed,                  \* what get_all_tweets_to_archive printed
    lastResolve,              \* what the last get_all_tweets_to_archive read
    cpAtCall,                 \* the checkpoint file when archive_tweet was last called
    failed,                   \* the identifier archive_tweet failed on in this run
    outcome,                  \* how the last run of main ended
    startedConsistent,        \* the last run of main started with the checkpoint
                              \* splitting the ledger into archived and not archived
    archived,                 \* identifiers for which archive_tweet returned success
    held                      \* identifiers the checkpoint file has held

vars == <<started, otherFile, chain, steps, given, feed, ledgerFile, stateFile, pc,
          already_saved_tweet_ids,
          tweet_ids_this_run, new_ids, view, exitReason, stalled, near_bottom,
          pass_raised, scroll_count, persist_error, tweet_ids, i,
          new_archives, printed, lastResolve, cpAtCall, failed, outcome,
          startedConsistent, archived, held>>

collectorVars == <<already_saved_tweet_ids, tweet_ids_this_run, new_ids, view,
                   exitReason, stalled, near_bottom, pass_raised,
                   scroll_count>>
processorVars == <<tweet_ids, i, new_archives, printed, lastResolve, cpAtCall,
                   failed, outcome, startedConsistent, archived, held>>

----------------------------------------------------------------------------
(* Bounds *)

\* the number of likes the feed ever holds
MaxId == 4

\* the number of tweet elements the DOM holds per viewport height
ItemsPerView == 2

\* the longest run of passes without a new identifier that is counted
MaxStall == 3

\* the number of passes of the loop that is counted
MaxScroll == 3

\* the number of passes after which a periodic save would be due
PersistEvery == 2

\* the identifiers, in the order the likes are made
IdNames == <<"1", "2", "3", "4", "5", "6", "7", "8">>

Ids == {IdNames[n] : n \in 1..MaxId}

\* a checkpoint value that names no tweet of the feed
StaleId == "99"

\* Python's None, as get_last_archived_id returns it
None == "None"

----------------------------------------------------------------------------
(* Sequences *)

Range(s) == {s[n] : n \in 1..Len(s)}

Reverse(s) == [n \in 1..Len(s) |-> s[Len(s) + 1 - n]]

\* list.index: the first position of x in s (x is in s)
Index(s, x) == CHOOSE n \in 1..Len(s) : s[n] = x /\ \A m \in 1..(n - 1) : s[m] # x

NoDuplicates(s) == \A m, n \in 1..Len(s) : s[m] = s[n] => m = n

\* every order in which the elements of S can be listed
RECURSIVE Orders(_)
Orders(S) ==
    IF S = {} THEN {<<>>}
    ELSE UNION {{<<x>> \o rest : rest \in Orders(S \ {x})} : x \in S}

\* x is older than y in ledger L: both are entries and x comes after y
Older(x, y, L) == x \in Range(L) /\ y \in Range(L) /\ Index(L, x) > Index(L, y)

----------------------------------------------------------------------------
(* archive_all_likes.py: the checkpoint store and the pending list *)

NoFile == [exists |-> FALSE, lines |-> <<>>]

NoState == [exists |-> FALSE, content |-> ""]

\* run_archive.py is not running
NoChain == [fetch_only |-> FALSE, archive_only |-> FALSE, at |-> "none"]

\* archive_tweet has not been called
NoCall == [screenshot |-> FALSE, media |-> FALSE, raised |-> FALSE]

\* load_existing_tweet_ids, save_tweet_ids and run, lines 149, 277 and 317,
\* and main, line 398: the default of every file name parameter and of --output
DefaultFile == "liked_tweet_ids.txt"

\* another file name, given with --output or as run's output_file
OtherFile == "other.txt"

\* a collector run started by main without --output
NoOutput == [entry |-> "main", F |-> DefaultFile]

\* no merge is being tried
NoBatches == [L |-> NoFile, B1 |-> <<>>, B2 |-> <<>>]

\* get_last_archived_id: the stripped content of the file, None when it is missing
get_last_archived_id(sf) == IF sf.exists THEN sf.content ELSE None

\* save_last_archived_id with the write left out
save_last_archived_id_skipped(tweet_id) == stateFile

\* save_last_archived_id: the file after open(STATE_FILE, 'w'); f.write(tweet_id)
save_last_archived_id(tweet_id) == [exists |-> TRUE, content |-> tweet_id]

\* Python's truth value of last_archived_id: None and '' are false
Truthy(v) == v # None /\ v # ""

\* the checkpoint value v splits ledger L: the entries at or older than v are
\* the archived ones (none when there is no checkpoint)
Consistent(v, L, done) ==
    IF Truthy(v)
      THEN v \in Range(L) /\ \A x \in Range(L) : x \in done <=> ~Older(v, x, L)
      ELSE Range(L) \cap done = {}

\* get_all_tweets_to_archive with the slice starting at the checkpoint itself
get_all_tweets_from_checkpoint(sf, lf) ==
    LET last_archived_id == get_last_archived_id(sf)
        reversed == Reverse(lf.lines)
    IN  IF ~lf.exists
          THEN [ids |-> <<>>, printed |-> "Error: Could not find"]
        ELSE IF reversed = <<>>
          THEN [ids |-> <<>>, printed |-> "No tweet IDs found"]
        ELSE IF ~Truthy(last_archived_id)
          THEN [ids |-> reversed, printed |-> ""]
        ELSE IF last_archived_id \in Range(reversed)
          THEN [ids |-> SubSeq(reversed, Index(reversed, last_archived_id),
                               Len(reversed)),
                printed |-> ""]
        ELSE [ids |-> reversed, printed |-> "Warning: not found"]

\* get_all_tweets_to_archive without the reversal of line 39
get_all_tweets_newest_first(sf, lf) ==
    LET last_archived_id == get_last_archived_id(sf)
        listed == lf.lines
    IN  IF ~lf.exists
          THEN [ids |-> <<>>, printed |-> "Error: Could not find"]
        ELSE IF listed = <<>>
          THEN [ids |-> <<>>, printed |-> "No tweet IDs found"]
        ELSE IF ~Truthy(last_archived_id)
          THEN [ids |-> listed, printed |-> ""]
        ELSE IF last_archived_id \in Range(listed)
          THEN [ids |-> SubSeq(listed, 1, Index(listed, last_archived_id) - 1),
                printed |-> ""]
        ELSE [ids |-> listed, printed |-> "Warning: not found"]

\* get_all_tweets_to_archive returning nothing, silently, for a checkpoint
\* that is not in the list
get_all_tweets_dangling_dropped(sf, lf) ==
    LET last_archived_id == get_last_archived_id(sf)
        reversed == Reverse(lf.lines)
    IN  IF ~lf.exists
          THEN [ids |-> <<>>, printed |-> "Error: Could not find"]
        ELSE IF reversed = <<>>
          THEN [ids |-> <<>>, printed |-> "No tweet IDs found"]
        ELSE IF ~Truthy(last_archived_id)
          THEN [ids |-> reversed, printed |-> ""]
        ELSE IF last_archived_id \in Range(reversed)
          THEN [ids |-> SubSeq(reversed, Index(reversed, last_archived_id) + 1,
                               Len(reversed)),
                printed |-> ""]
        ELSE [ids |-> <<>>, printed |-> ""]

\* get_all_tweets_to_archive: the list returned and the message printed
get_all_tweets_to_archive(sf, lf) ==
    LET last_archived_id == get_last_archived_id(sf)
        reversed == Reverse(lf.lines)
    IN  IF ~lf.exists
          THEN [ids |-> <<>>, printed |-> "Error: Could not find"]
        ELSE IF reversed = <<>>
          THEN [ids |-> <<>>, printed |-> "No tweet IDs found"]
        ELSE IF ~Truthy(last_archived_id)
          THEN [ids |-> reversed, printed |-> ""]
        ELSE IF last_archived_id \in Range(reversed)
          THEN [ids |-> SubSeq(reversed, Index(reversed, last_archived_id) + 1,
                               Len(reversed)),
                printed |-> ""]
        ELSE [ids |-> reversed, printed |-> "Warning: not found"]

\* archive_tweet returning success only when both steps succeeded
archive_tweet_both(screenshot_success, media_success, raised) ==
    IF raised THEN FALSE ELSE screenshot_success /\ media_success

\* archive_tweet without the outer handler of lines 92-93
archive_tweet_unguarded(screenshot_success, media_success, raised) ==
    screenshot_success \/ media_success

\* archive_tweet: the success flag it returns, from the outcome of the
\* screenshot, of the media download and of an exception outside the two
archive_tweet(screenshot_success, media_success, raised) ==
    IF raised THEN FALSE ELSE screenshot_success \/ media_success

\* the loop of main with continue in place of the break of line 85
LoopNext_continue(success, idx, n) == IF idx < n THEN "delay" ELSE "exhausted"

\* the loop of main left after its first item
LoopNext_once(success, idx, n) == IF ~success THEN "break" ELSE "exhausted"

\* main, lines 78-90: where the loop goes once archive_tweet has returned
LoopNext(success, idx, n) ==
    IF ~success THEN "break"
    ELSE IF idx < n THEN "delay"
    ELSE "exhausted"

\* main taking the archived item off the ledger file
main_ledger_consumed(lf, tweet_id) ==
    [lf EXCEPT !.lines = SelectSeq(lf.lines, LAMBDA t : t # tweet_id)]

\* main, lines 76-81: the ledger file once an item is archived; INPUT_FILE is
\* opened by get_all_tweets_to_archive alone (line 33), for reading
main_ledger(lf, tweet_id) == lf

----------------------------------------------------------------------------
(* archive_all_likes.py: main *)

\* main, lines 61-72: resolve the pending list, call archive_tweet on its head
StartProcessor ==
    /\ pc \in {"idle", "archive_main"}
    /\ LET r == get_all_tweets_to_archive(stateFile, ledgerFile)
       IN  /\ tweet_ids' = r.ids
           /\ printed' = r.printed
           /\ lastResolve' = [C |-> get_last_archived_id(stateFile), L |-> ledgerFile]
           /\ new_archives' = 0
           /\ failed' = ""
           /\ startedConsistent' = Consistent(get_last_archived_id(stateFile),
                                              ledgerFile.lines, archived)
           /\ IF r.ids = <<>>
                THEN /\ pc' = "idle"
                     /\ i' = 0
                     /\ outcome' = "nothing"
                     /\ cpAtCall' = cpAtCall
                ELSE /\ pc' = "archiving"
                     /\ i' = 1
                     /\ outcome' = "running"
                     /\ cpAtCall' = stateFile
    /\ UNCHANGED <<feed, ledgerFile, stateFile, persist_error, archived, held,
                   collectorVars>>
    /\ UNCHANGED given
    /\ steps' = NoCall
    /\ UNCHANGED chain
    /\ UNCHANGED otherFile
    /\ UNCHANGED started

\* main, lines 76-90: archive_tweet returns; on success the checkpoint is
\* written and counted, on failure the loop is left
ArchiveReturns ==
    /\ pc = "archiving"
    /\ \E screenshot_success, media_success, raised \in BOOLEAN :
         LET success == archive_tweet(screenshot_success, media_success, raised)
             tweet_id == tweet_ids[i]
             next == LoopNext(success, i, Len(tweet_ids))
         IN  /\ steps' = [screenshot |-> ~raised /\ screenshot_success,
                           media |-> ~raised /\ media_success, raised |-> raised]
             /\ IF success
                  THEN /\ stateFile' = save_last_archived_id(tweet_id)
                       /\ new_archives' = new_archives + 1
                       /\ archived' = archived \cup {tweet_id}
                       /\ held' = held \cup {tweet_id}
                       /\ failed' = failed
                       /\ ledgerFile' = main_ledger(ledgerFile, tweet_id)
                  ELSE /\ failed' = tweet_id
                       /\ UNCHANGED <<ledgerFile, stateFile, new_archives, archived,
                                      held>>
             /\ pc' = IF next = "delay" THEN "delay" ELSE "idle"
             /\ outcome' = CASE next = "delay" -> outcome
                             [] next = "break" -> "halted"
                             [] OTHER -> "completed"
    /\ UNCHANGED <<feed, persist_error, tweet_ids, i, printed, lastResolve, cpAtCall,
                   startedConsistent, collectorVars>>
    /\ UNCHANGED given
    /\ UNCHANGED chain
    /\ UNCHANGED otherFile
    /\ UNCHANGED started

\* main, lines 88-90 and 72-76: the sleep ends, archive_tweet is called on the
\* next item
DelayDone ==
    /\ pc = "delay"
    /\ pc' = "archiving"
    /\ i' = i + 1
    /\ cpAtCall' = stateFile
    /\ UNCHANGED <<feed, ledgerFile, stateFile, persist_error, tweet_ids, new_archives, printed,
                   lastResolve, failed, outcome, startedConsistent, archived, held,
                   collectorVars>>
    /\ UNCHANGED given
    /\ UNCHANGED steps
    /\ UNCHANGED chain
    /\ UNCHANGED otherFile
    /\ UNCHANGED started

----------------------------------------------------------------------------
(* like_retriever/fetch_likes.py: TwitterScraper *)

Min(a, b) == IF a < b THEN a ELSE b

Max(a, b) == IF a > b THEN a ELSE b

\* scroll_and_extract, line 235: the distance of one scroll
scroll_amount(viewport_height) == viewport_height \div 2

\* the furthest the page scrolls: its last viewport
LastView == Max(1, Len(feed) - ItemsPerView + 1)

\* the tweet elements in the DOM when the page is scrolled to v, top first
Visible(v) == SubSeq(feed, v, Min(Len(feed), v + ItemsPerView - 1))

\* where one window.scrollTo of scroll_amount may leave the page: the tweets
\* differ in height and the page may not have rendered the next ones
ScrollTargets(v) == {w \in v..(v + scroll_amount(ItemsPerView)) : w <= Max(v, LastView)}

\* scroll_and_extract, lines 259-263: the viewport is within 200 pixels of the
\* bottom of the page, which is when the last tweet of the page is in the DOM
NearBottom(v) == v >= LastView

\* scroll_and_extract with the loop left at the bottom of the page
AfterBottomTest_break(near) == IF near THEN "break" ELSE "continue"

\* scroll_and_extract, lines 263-267: what follows the test of line 263; near
\* the bottom the pass sleeps scroll_pause_time * 2 and the loop goes on
AfterBottomTest(near) == "continue"

\* load_existing_tweet_ids: the set added to already_saved_tweet_ids
load_existing_tweet_ids(lf) == IF lf.exists THEN Range(lf.lines) ELSE {}

\* extract_tweet_ids appending every identifier that is not already saved,
\* whether or not this run has it
extract_tweet_ids_appending(this_run, already_saved, tweets) ==
    [ids |-> Range(tweets),
     this_run |-> this_run \o SelectSeq(tweets, LAMBDA t : t \notin already_saved)]

\* extract_tweet_ids: the set returned (ids) and tweet_ids_this_run afterwards
extract_tweet_ids(this_run, already_saved, tweets) ==
    [ids |-> Range(tweets),
     this_run |-> this_run \o SelectSeq(tweets,
                      LAMBDA t : t \notin Range(this_run) /\ t \notin already_saved)]

\* scroll_and_extract, line 248: the batch holds an identifier already saved
Overlaps(ids, already_saved) == \E tweet_id \in ids : tweet_id \in already_saved

\* save_tweet_ids writing the new identifiers alone
save_tweet_ids_new_only(this_run, lf) ==
    IF this_run = <<>> THEN {lf} ELSE {[exists |-> TRUE, lines |-> this_run]}

\* save_tweet_ids without the early return of lines 281-283
save_tweet_ids_always(this_run, lf) ==
    {[exists |-> TRUE, lines |-> this_run \o rest] :
        rest \in Orders(load_existing_tweet_ids(lf) \ Range(this_run))}

\* save_tweet_ids keeping of the old entries only the newest one
save_tweet_ids_newest_kept(this_run, lf) ==
    IF this_run = <<>> THEN {lf}
    ELSE {[exists |-> TRUE,
           lines |-> this_run \o (IF lf.lines = <<>> THEN <<>> ELSE <<lf.lines[1]>>)]}

\* save_tweet_ids: the files it may leave. existing_ids_from_file is a set of
\* strings, and the list comprehension of line 295 walks it in the set's
\* iteration order, which is any order
save_tweet_ids(this_run, lf) ==
    IF this_run = <<>> THEN {lf}
    ELSE {[exists |-> TRUE, lines |-> this_run \o rest] :
             rest \in Orders(load_existing_tweet_ids(lf) \ Range(this_run))}

\* scroll_and_extract with a save after every PersistEvery passes
after_pass_periodic(this_run, lf, count) ==
    IF count % PersistEvery = 0 THEN save_tweet_ids(this_run, lf) ELSE {lf}

\* scroll_and_extract, lines 233-267: the ledger file after a pass that goes
\* on to the next; the body of the loop has no call of save_tweet_ids
after_pass(this_run, lf, count) == {lf}

\* scroll_and_extract with a finally clause that does not save
finally_skipped(this_run, lf) == {lf}

\* scroll_and_extract, lines 271-275: the finally clause; every way out of the
\* try block passes through self.save_tweet_ids()
finally_save(this_run, lf) == save_tweet_ids(this_run, lf)

\* scroll_and_extract with the exception caught inside the loop
AfterException_continue == "continue"

\* scroll_and_extract, lines 216, 233 and 269-270: the try block encloses the
\* whole loop, so an Exception raised by a pass leaves the loop
AfterException == "exit"

\* run, lines 317-321: a new TwitterScraper loads the ledger file
StartCollector ==
    /\ pc \in {"idle", "fetch_likes_main"}
    /\ pc' = "loaded"
    /\ tweet_ids_this_run' = <<>>
    /\ already_saved_tweet_ids' = load_existing_tweet_ids(ledgerFile)
    /\ new_ids' = {}
    /\ view' = 1
    /\ exitReason' = "running"
    /\ stalled' = 0
    /\ near_bottom' = FALSE
    /\ pass_raised' = FALSE
    /\ scroll_count' = 0
    /\ UNCHANGED <<feed, ledgerFile, stateFile, persist_error, processorVars>>
    /\ UNCHANGED given
    /\ steps' = NoCall
    /\ UNCHANGED chain
    /\ UNCHANGED otherFile
    /\ started' = NoOutput

\* the file a name stands for
FileNamed(name) == IF name = DefaultFile THEN ledgerFile ELSE otherFile

\* main, lines 398-412: the output_file that run gets when main was given
\* --output; main keeps the option in a local and calls
\* scraper.run(username, headless), so run takes its default
main_output_file(output) == DefaultFile

\* run, line 317: output_file as run has it, called by main or directly
run_output_file(st) ==
    IF st.entry = "main" THEN main_output_file(st.F) ELSE st.F

\* the ways to start a collector run for a ledger file F: main with --output F
\* (or without the option, F the default), and run(output_file=F)
Starts == [entry : {"main", "run"}, F : {DefaultFile, OtherFile}]

\* main, lines 398-412, and run, lines 317-321: a collector run is started for
\* a ledger file; load_existing_tweet_ids reads the file run has as output_file
StartCollectorFor ==
    /\ pc = "idle"
    /\ \E st \in Starts :
         /\ started' = st
         /\ already_saved_tweet_ids' =
               load_existing_tweet_ids(FileNamed(run_output_file(st)))
    /\ pc' = "loaded"
    /\ tweet_ids_this_run' = <<>>
    /\ new_ids' = {}
    /\ view' = 1
    /\ exitReason' = "running"
    /\ stalled' = 0
    /\ near_bottom' = FALSE
    /\ pass_raised' = FALSE
    /\ scroll_count' = 0
    /\ steps' = NoCall
    /\ UNCHANGED <<feed, ledgerFile, otherFile, stateFile, persist_error, given,
                   chain, processorVars>>

\* scroll_and_extract, lines 218-231: the initial view is extracted
InitialExtract ==
    /\ pc = "loaded"
    /\ LET r == extract_tweet_ids(tweet_ids_this_run, already_saved_tweet_ids,
                                  Visible(1))
       IN  /\ new_ids' = r.ids
           /\ tweet_ids_this_run' = r.this_run
    /\ view' = 1
    /\ pc' = "scrolling"
    /\ pass_raised' = FALSE
    /\ UNCHANGED <<feed, ledgerFile, stateFile, already_saved_tweet_ids, exitReason,
                   stalled, near_bottom, scroll_count, persist_error, processorVars>>
    /\ UNCHANGED given
    /\ UNCHANGED steps
    /\ UNCHANGED chain
    /\ UNCHANGED otherFile
    /\ UNCHANGED started

\* scroll_and_extract, lines 233-267 and 271-275: one pass of the loop; on
\* overlap the loop is left and the finally clause saves
ScrollExtract ==
    /\ pc = "scrolling"
    /\ \E v \in ScrollTargets(view) :
         LET r == extract_tweet_ids(tweet_ids_this_run, already_saved_tweet_ids,
                                    Visible(v))
         IN  /\ view' = v
             /\ new_ids' = r.ids
             /\ tweet_ids_this_run' = r.this_run
             /\ pass_raised' = FALSE
             /\ IF Overlaps(r.ids, already_saved_tweet_ids)
                  THEN /\ pc' = "idle"
                       /\ exitReason' = "overlap"
                       /\ stalled' = 0
                       /\ near_bottom' = FALSE
                       /\ scroll_count' = 0
                       /\ ledgerFile' \in finally_save(r.this_run, ledgerFile)
                  ELSE IF AfterBottomTest(NearBottom(v)) = "break"
                  THEN /\ pc' = "idle"
                       /\ exitReason' = "bottom"
                       /\ stalled' = 0
                       /\ near_bottom' = FALSE
                       /\ scroll_count' = 0
                       /\ ledgerFile' \in finally_save(r.this_run, ledgerFile)
                  ELSE /\ pc' = "scrolling"
                       /\ stalled' = IF r.this_run = tweet_ids_this_run
                                       THEN Min(stalled + 1, MaxStall)
                                       ELSE 0
                       /\ near_bottom' = NearBottom(v)
                       /\ scroll_count' = Min(scroll_count + 1, MaxScroll)
                       /\ ledgerFile' \in after_pass(r.this_run, ledgerFile, scroll_count')
                       /\ UNCHANGED exitReason
    /\ UNCHANGED <<feed, stateFile, already_saved_tweet_ids, persist_error,
                   processorVars>>
    /\ UNCHANGED given
    /\ UNCHANGED steps
    /\ UNCHANGED chain
    /\ UNCHANGED otherFile
    /\ UNCHANGED started

\* scroll_and_extract, lines 269-275: a driver call (the scroll or the
\* extraction) raises; the except clause, which is outside the loop, prints the
\* error and the finally clause saves
DriverError ==
    /\ pc \in {"loaded", "scrolling"}
    /\ pass_raised' = TRUE
    /\ IF AfterException = "exit"
         THEN /\ pc' = "idle"
              /\ exitReason' = "error"
              /\ stalled' = 0
              /\ near_bottom' = FALSE
              /\ scroll_count' = 0
              /\ ledgerFile' \in finally_save(tweet_ids_this_run, ledgerFile)
         ELSE /\ pc' = "scrolling"
              /\ stalled' = Min(stalled + 1, MaxStall)
              /\ UNCHANGED <<exitReason, near_bottom, scroll_count, ledgerFile>>
    /\ UNCHANGED <<feed, stateFile, already_saved_tweet_ids, tweet_ids_this_run,
                   new_ids, view, persist_error, processorVars>>
    /\ UNCHANGED given
    /\ UNCHANGED steps
    /\ UNCHANGED chain
    /\ UNCHANGED otherFile
    /\ UNCHANGED started

\* scroll_and_extract, lines 271-275: Ctrl+C is no Exception, so only the
\* finally clause runs, and saves
KeyboardInterrupt ==
    /\ pc \in {"loaded", "scrolling"}
    /\ pc' = "idle"
    /\ exitReason' = "interrupt"
    /\ stalled' = 0
    /\ near_bottom' = FALSE
    /\ scroll_count' = 0
    /\ ledgerFile' \in finally_save(tweet_ids_this_run, ledgerFile)
    /\ UNCHANGED <<feed, stateFile, already_saved_tweet_ids, tweet_ids_this_run,
                   new_ids, view, pass_raised, persist_error, processorVars>>
    /\ UNCHANGED given
    /\ UNCHANGED steps
    /\ UNCHANGED chain
    /\ UNCHANGED otherFile
    /\ UNCHANGED started

\* the process is killed (SIGKILL, power loss) inside scroll_and_extract: no
\* except or finally clause runs
Killed ==
    /\ pc \in {"loaded", "scrolling"}
    /\ pc' = "idle"
    /\ exitReason' = "killed"
    /\ stalled' = 0
    /\ near_bottom' = FALSE
    /\ scroll_count' = 0
    /\ UNCHANGED <<feed, ledgerFile, stateFile, already_saved_tweet_ids,
                   tweet_ids_this_run, new_ids, view, pass_raised, persist_error,
                   processorVars>>
    /\ UNCHANGED given
    /\ UNCHANGED steps
    /\ UNCHANGED chain
    /\ UNCHANGED otherFile
    /\ UNCHANGED started

----------------------------------------------------------------------------
(* The likes page *)

\* the user likes one more tweet: it appears on top of the likes page
NewLike ==
    /\ pc = "idle"
    /\ Len(feed) < MaxId
    /\ feed' = <<IdNames[Len(feed) + 1]>> \o feed
    /\ UNCHANGED <<ledgerFile, stateFile, pc, persist_error, collectorVars,
                   processorVars>>
    /\ UNCHANGED given
    /\ UNCHANGED steps
    /\ UNCHANGED chain
    /\ UNCHANGED otherFile
    /\ UNCHANGED started

----------------------------------------------------------------------------
(* Specifications *)

\* no script has run yet
InitLocals ==
    /\ feed = <<>>
    /\ already_saved_tweet_ids = {}
    /\ tweet_ids_this_run = <<>>
    /\ new_ids = {}
    /\ view = 1
    /\ exitReason = "none"
    /\ stalled = 0
    /\ near_bottom = FALSE
    /\ pass_raised = FALSE
    /\ scroll_count = 0
    /\ persist_error = "none"
    /\ tweet_ids = <<>>
    /\ i = 0
    /\ new_archives = 0
    /\ printed = ""
    /\ lastResolve = [C |-> None, L |-> NoFile]
    /\ cpAtCall = NoState
    /\ failed = ""
    /\ outcome = "none"
    /\ startedConsistent = TRUE
    /\ archived = {}
    /\ held = {}
    /\ steps = NoCall
    /\ chain = NoChain
    /\ otherFile = NoFile
    /\ started = NoOutput

InitRest ==
    /\ given = NoBatches
    /\ pc = "idle"
    /\ InitLocals

\* a fresh installation: no ledger file, no checkpoint file, no likes
Init ==
    /\ ledgerFile = NoFile
    /\ stateFile = NoState
    /\ InitRest

\* the ledger files: missing, or any list of distinct identifiers
LedgerFiles ==
    {NoFile} \cup {[exists |-> TRUE, lines |-> L] :
                      L \in UNION {Orders(S) : S \in SUBSET Ids}}

\* the checkpoint files: missing, empty, an identifier, or a value that names
\* no identifier of the ledger
StateFiles ==
    {NoState} \cup {[exists |-> TRUE, content |-> c] : c \in Ids \cup {"", StaleId}}

\* main is run on any ledger file and any checkpoint file
InitResolve ==
    /\ ledgerFile \in LedgerFiles
    /\ stateFile \in StateFiles
    /\ InitRest

Next ==
    \/ NewLike
    \/ StartCollector
    \/ InitialExtract
    \/ ScrollExtract
    \/ DriverError
    \/ KeyboardInterrupt
    \/ Killed
    \/ StartProcessor
    \/ ArchiveReturns
    \/ DelayDone

Spec == Init /\ [][Next]_vars

----------------------------------------------------------------------------
(* run_archive.py: the collector and the processor in one invocation *)

\* main, line 44, with archive_likes called whatever the options are
calls_archive_always(args) == TRUE

\* main, line 41: fetch_new_likes is called
calls_fetch(args) == ~args.archive_only

\* main, line 44: archive_likes is called
calls_archive(args) == ~args.fetch_only

\* fetch_likes.main, line 399: parse_args reads the command line of
\* run_archive.py and leaves with SystemExit(2) on an option it does not know;
\* of the two options only --fetch-only is there when fetch_new_likes is called
fetch_parse_args(args) == IF args.fetch_only THEN "SystemExit" ELSE "parsed"

\* main, lines 32-38: python run_archive.py [--fetch-only] [--archive-only]
RunArchive ==
    /\ pc = "idle"
    /\ chain.at = "none"
    /\ \E fetch_only, archive_only \in BOOLEAN :
         chain' = [fetch_only |-> fetch_only, archive_only |-> archive_only,
                   at |-> "line 41"]
    /\ pc' = "run_archive"
    /\ UNCHANGED <<feed, ledgerFile, stateFile, given, steps, persist_error,
                   collectorVars, processorVars>>
    /\ UNCHANGED otherFile
    /\ UNCHANGED started

\* main, lines 41-42, and fetch_likes.main, lines 382-399
fetch_new_likes ==
    /\ pc = "run_archive"
    /\ chain.at = "line 41"
    /\ IF ~calls_fetch(chain)
         THEN /\ chain' = [chain EXCEPT !.at = "line 44"]
              /\ pc' = pc
         ELSE IF fetch_parse_args(chain) = "SystemExit"
         THEN /\ chain' = NoChain
              /\ pc' = "idle"
         ELSE /\ chain' = [chain EXCEPT !.at = "fetch_new_likes"]
              /\ pc' = "fetch_likes_main"
    /\ UNCHANGED <<feed, ledgerFile, stateFile, given, steps, persist_error,
                   collectorVars, processorVars>>
    /\ UNCHANGED otherFile
    /\ UNCHANGED started

\* main, lines 42 and 51-53: fetch_likes.main returns, or Ctrl+C comes out of
\* it and main leaves with sys.exit(1), or the process was killed
fetch_returns ==
    /\ pc = "idle"
    /\ chain.at = "fetch_new_likes"
    /\ IF exitReason \in {"interrupt", "killed"}
         THEN /\ chain' = NoChain
              /\ pc' = "idle"
         ELSE /\ chain' = [chain EXCEPT !.at = "line 44"]
              /\ pc' = "run_archive"
    /\ UNCHANGED <<feed, ledgerFile, stateFile, given, steps, persist_error,
                   collectorVars, processorVars>>
    /\ UNCHANGED otherFile
    /\ UNCHANGED started

\* main, lines 44-45
archive_likes ==
    /\ pc = "run_archive"
    /\ chain.at = "line 44"
    /\ IF calls_archive(chain)
         THEN /\ chain' = [chain EXCEPT !.at = "archive_likes"]
              /\ pc' = "archive_main"
         ELSE /\ chain' = NoChain
              /\ pc' = "idle"
    /\ UNCHANGED <<feed, ledgerFile, stateFile, given, steps, persist_error,
                   collectorVars, processorVars>>
    /\ UNCHANGED otherFile
    /\ UNCHANGED started

\* main, lines 45-49: archive_all_likes.main returns and main ends
archive_returns ==
    /\ pc = "idle"
    /\ chain.at = "archive_likes"
    /\ chain' = NoChain
    /\ UNCHANGED <<feed, ledgerFile, stateFile, pc, given, steps, persist_error,
                   collectorVars, processorVars>>
    /\ UNCHANGED otherFile
    /\ UNCHANGED started

\* the scripts are started by run_archive.py only
NextChain ==
    \/ NewLike
    \/ RunArchive
    \/ fetch_new_likes
    \/ (pc = "fetch_likes_main" /\ StartCollector)
    \/ InitialExtract
    \/ ScrollExtract
    \/ DriverError
    \/ KeyboardInterrupt
    \/ Killed
    \/ fetch_returns
    \/ archive_likes
    \/ (pc = "archive_main" /\ StartProcessor)
    \/ ArchiveReturns
    \/ DelayDone
    \/ archive_returns

SpecChain == Init /\ [][NextChain]_vars

----------------------------------------------------------------------------
(* The collector started for a ledger file of the user's choice *)

\* collector runs alone, each started for a ledger file; the finally clause of
\* scroll_and_extract calls self.save_tweet_ids() without a file name (line
\* 274), so the saves of ScrollExtract, DriverError and KeyboardInterrupt go to
\* liked_tweet_ids.txt
NextOutput ==
    \/ NewLike
    \/ StartCollectorFor
    \/ InitialExtract
    \/ ScrollExtract
    \/ DriverError
    \/ KeyboardInterrupt

SpecOutput == Init /\ [][NextOutput]_vars

----------------------------------------------------------------------------
(* Writes that do not finish; one history has at most one of them *)

\* save_tweet_ids, lines 298-300, cut short: open(filename, 'w') empties the
\* file and the identifiers are written one by one, so the file holds the
\* lines written before the cut
cut_short(lines) == {SubSeq(lines, 1, n) : n \in 0..(Len(lines) - 1)}

\* save_tweet_ids, lines 306-309: an exception of the open or of a write is
\* caught, printed, and the function returns as after a save
save_tweet_ids_error == "swallowed"

\* save_last_archived_id, lines 19-22: there is no handler, here or in main,
\* so an exception of the open or of the write ends main with a traceback
save_last_archived_id_error == "raised"

\* the process is killed while the finally clause is in the write loop of
\* save_tweet_ids
KilledInSave ==
    /\ pc \in {"loaded", "scrolling"}
    /\ persist_error = "none"
    /\ tweet_ids_this_run # <<>>
    /\ \E f \in save_tweet_ids(tweet_ids_this_run, ledgerFile) :
         \E L \in cut_short(f.lines) :
            ledgerFile' = [exists |-> TRUE, lines |-> L]
    /\ pc' = "idle"
    /\ exitReason' = "killed"
    /\ stalled' = 0
    /\ near_bottom' = FALSE
    /\ scroll_count' = 0
    /\ persist_error' = "killed"
    /\ UNCHANGED <<feed, stateFile, already_saved_tweet_ids, tweet_ids_this_run,
                   new_ids, view, pass_raised, processorVars>>
    /\ UNCHANGED given
    /\ UNCHANGED steps
    /\ UNCHANGED chain
    /\ UNCHANGED otherFile
    /\ UNCHANGED started

\* the loop is left by Ctrl+C and the write of save_tweet_ids fails (the
\* open is refused, or the disk fills up during the writes); scroll_and_extract
\* goes on to print "Saved N total liked tweets to file."
LedgerWriteFails ==
    /\ pc \in {"loaded", "scrolling"}
    /\ persist_error = "none"
    /\ tweet_ids_this_run # <<>>
    /\ \E f \in save_tweet_ids(tweet_ids_this_run, ledgerFile) :
         \E L \in cut_short(f.lines) :
            ledgerFile' \in {ledgerFile, [exists |-> TRUE, lines |-> L]}
    /\ persist_error' = save_tweet_ids_error
    /\ pc' = "idle"
    /\ exitReason' = "interrupt"
    /\ stalled' = 0
    /\ near_bottom' = FALSE
    /\ scroll_count' = 0
    /\ UNCHANGED <<feed, stateFile, already_saved_tweet_ids, tweet_ids_this_run,
                   new_ids, view, pass_raised, processorVars>>
    /\ UNCHANGED given
    /\ UNCHANGED steps
    /\ UNCHANGED chain
    /\ UNCHANGED otherFile
    /\ UNCHANGED started

\* main, lines 78-81: archive_tweet returned success and the write of
\* save_last_archived_id fails (the open is refused, or it emptied the file
\* and the write failed)
CheckpointWriteFails ==
    /\ pc = "archiving"
    /\ persist_error = "none"
    /\ stateFile' \in {stateFile, [exists |-> TRUE, content |-> ""]}
    /\ persist_error' = save_last_archived_id_error
    /\ archived' = archived \cup {tweet_ids[i]}
    /\ pc' = "idle"
    /\ outcome' = "crashed"
    /\ UNCHANGED <<feed, ledgerFile, tweet_ids, i, new_archives, printed,
                   lastResolve, cpAtCall, failed, startedConsistent, held,
                   collectorVars>>
    /\ UNCHANGED given
    /\ UNCHANGED steps
    /\ UNCHANGED chain
    /\ UNCHANGED otherFile
    /\ UNCHANGED started

\* save_last_archived_id, lines 21-22, cut by Ctrl+C: before the open the file
\* is as it was, between the open and the write it is empty, after the write
\* the with statement closes it with the identifier in it
interrupted_write(sf, tweet_id) ==
    {sf, [exists |-> TRUE, content |-> ""], [exists |-> TRUE, content |-> tweet_id]}

\* main, lines 76 and 88-90: Ctrl+C during archive_tweet (its handlers catch
\* Exception only) or during the sleep; main has no handler and is left
ProcessorInterrupted ==
    /\ pc \in {"archiving", "delay"}
    /\ pc' = "idle"
    /\ outcome' = "interrupted"
    /\ UNCHANGED <<feed, ledgerFile, stateFile, given, steps, persist_error,
                   tweet_ids, i, new_archives, printed, lastResolve, cpAtCall,
                   failed, startedConsistent, archived, held, collectorVars>>
    /\ UNCHANGED chain
    /\ UNCHANGED otherFile
    /\ UNCHANGED started

\* main, lines 78-80: archive_tweet returned success and Ctrl+C arrives
\* inside save_last_archived_id
InterruptedInCheckpointWrite ==
    /\ pc = "archiving"
    /\ persist_error = "none"
    /\ \E screenshot_success, media_success \in BOOLEAN :
         /\ archive_tweet(screenshot_success, media_success, FALSE)
         /\ steps' = [screenshot |-> screenshot_success, media |-> media_success,
                      raised |-> FALSE]
    /\ stateFile' \in interrupted_write(stateFile, tweet_ids[i])
    /\ held' = IF stateFile'.content = tweet_ids[i]
                 THEN held \cup {tweet_ids[i]} ELSE held
    /\ archived' = archived \cup {tweet_ids[i]}
    /\ persist_error' = "interrupted"
    /\ pc' = "idle"
    /\ outcome' = "interrupted"
    /\ UNCHANGED <<feed, ledgerFile, given, tweet_ids, i, new_archives, printed,
                   lastResolve, cpAtCall, failed, startedConsistent, collectorVars>>
    /\ UNCHANGED chain
    /\ UNCHANGED otherFile
    /\ UNCHANGED started

NextIO ==
    \/ NewLike
    \/ StartCollector
    \/ InitialExtract
    \/ ScrollExtract
    \/ DriverError
    \/ KeyboardInterrupt
    \/ Killed
    \/ StartProcessor
    \/ ArchiveReturns
    \/ DelayDone
    \/ KilledInSave
    \/ LedgerWriteFails
    \/ CheckpointWriteFails
    \/ ProcessorInterrupted
    \/ InterruptedInCheckpointWrite

\* the program on a machine whose writes may be cut short or fail
SpecIO == Init /\ [][NextIO]_vars

NextProcessor ==
    \/ StartProcessor
    \/ ArchiveReturns
    \/ DelayDone

SpecResolve == InitResolve /\ [][NextProcessor]_vars

----------------------------------------------------------------------------
(* save_tweet_ids as a function: two batches merged one after the other *)

\* the likes page when every like has been made, newest first
FullFeed == Reverse(SubSeq(IdNames, 1, MaxId))

\* the batches: what extract_tweet_ids reads from one view of the likes page
Batches ==
    {SubSeq(FullFeed, v, Min(MaxId, v + n - 1)) : v \in 1..MaxId, n \in 0..ItemsPerView}

\* the ledger files that list likes newest first
LedgersNewestFirst ==
    {NoFile} \cup {[exists |-> TRUE,
                    lines |-> SelectSeq(FullFeed, LAMBDA x : x \in S)] : S \in SUBSET Ids}

\* tweet_ids_this_run after the batches bs are extracted in turn by a run that
\* loaded the set already_saved
RECURSIVE RunOf(_, _)
RunOf(bs, already_saved) ==
    IF bs = <<>> THEN <<>>
    ELSE extract_tweet_ids(RunOf(SubSeq(bs, 1, Len(bs) - 1), already_saved),
                           already_saved, bs[Len(bs)]).this_run

\* a ledger file and two batches, before the first of two collector runs
InitMerge ==
    /\ \E L \in LedgersNewestFirst, B1 \in Batches, B2 \in Batches :
         /\ ledgerFile = L
         /\ given = [L |-> L, B1 |-> B1, B2 |-> B2]
    /\ stateFile = NoState
    /\ pc = "merge"
    /\ InitLocals

\* a collector run that extracts the one batch B and saves: run, lines 321-352,
\* without the browser
MergeBatch(B, then) ==
    /\ already_saved_tweet_ids' = load_existing_tweet_ids(ledgerFile)
    /\ tweet_ids_this_run' = RunOf(<<B>>, already_saved_tweet_ids')
    /\ new_ids' = Range(B)
    /\ ledgerFile' \in save_tweet_ids(tweet_ids_this_run', ledgerFile)
    /\ pc' = then
    /\ UNCHANGED <<feed, stateFile, given, view, exitReason, stalled, near_bottom,
                   pass_raised, scroll_count, persist_error, processorVars>>
    /\ UNCHANGED steps
    /\ UNCHANGED chain
    /\ UNCHANGED otherFile
    /\ UNCHANGED started

\* the first run merges B1
MergeFirst == pc = "merge" /\ MergeBatch(given.B1, "merged once")

\* the second run merges B2
MergeSecond == pc = "merged once" /\ MergeBatch(given.B2, "merged twice")

NextMerge == MergeFirst \/ MergeSecond

SpecMerge == InitMerge /\ [][NextMerge]_vars

\* the files one run leaves that extracts B1 and then B2 over the ledger L
MergedInOne(L, B1, B2) ==
    save_tweet_ids(RunOf(<<B1, B2>>, load_existing_tweet_ids(L)), L)

----------------------------------------------------------------------------
(* What the next run would do, what a finished collector run is *)

\* the pending list the next run of main would resolve
NextPending == get_all_tweets_to_archive(stateFile, ledgerFile).ids

\* the place of the checkpoint in the ledger file, counted from the newest
\* entry (the first line); a checkpoint that is missing, empty or not in the
\* file, after which main archives every entry, counts as one past the oldest
CheckpointPosition(sf, lf) ==
    LET last_archived_id == get_last_archived_id(sf)
    IN  IF Truthy(last_archived_id) /\ last_archived_id \in Range(lf.lines)
          THEN Index(lf.lines, last_archived_id)
          ELSE Len(lf.lines) + 1

\* a step in which scroll_and_extract returns
CollectorExits ==
    pc \in {"loaded", "scrolling"} /\ pc' = "idle" /\ exitReason' # "killed"

----------------------------------------------------------------------------
(* Claims *)

\* C1: across collector and processor runs from a fresh installation, no
\* identifier whose archive_tweet call already succeeded is passed to
\* archive_tweet again, and every ledger identifier whose archive has not yet
\* succeeded is in the pending list of the next processor run.
C1_NoRepeatNoSkip ==
    /\ pc = "archiving" => tweet_ids[i] \notin archived
    /\ pc = "idle" =>
         \A x \in Range(ledgerFile.lines) \ archived : x \in Range(NextPending)

\* C2: a collector run that discovers new identifiers persists the new
\* identifiers in discovery order, followed by the previously recorded
\* identifiers in exactly the order they had in the ledger file.
C2_MergeKeepsOrder ==
    [][(CollectorExits /\ tweet_ids_this_run' # <<>>) =>
          ledgerFile'.lines = tweet_ids_this_run' \o ledgerFile.lines]_vars

\* C3: the checkpoint changes only right after an archive_tweet call that
\* returned success, to that call's identifier, and never to an identifier
\* older in ledger order than one the checkpoint has held before.
C3_CheckpointNeverOlder ==
    [][stateFile' # stateFile =>
          /\ pc = "archiving"
          /\ stateFile' = [exists |-> TRUE, content |-> tweet_ids[i]]
          /\ tweet_ids[i] \in archived'
          /\ \A X \in held : ~Older(tweet_ids[i], X, ledgerFile.lines)]_vars


\* C4: when archive_tweet fails on X, no further archive_tweet call is made
\* in that run, the checkpoint after the run is the one of the moment X was
\* attempted, and the next run on the unchanged ledger attempts X first.
C4_FailStop ==
    /\ pc \in {"archiving", "delay"} => failed = ""
    /\ (pc = "idle" /\ outcome = "halted") => stateFile = cpAtCall
    /\ (pc = "idle" /\ outcome = "halted" /\ ledgerFile = lastResolve.L) =>
          NextPending # <<>> /\ Head(NextPending) = failed

\* C4 witness: a run halted on its second or a later item, ledger unchanged
C4_Witness ==
    /\ pc = "idle" /\ outcome = "halted" /\ new_archives >= 1
    /\ ledgerFile = lastResolve.L

\* C5: with no checkpoint (file missing or empty) the pending list is the
\* whole ledger; with a checkpoint that is a ledger entry it is exactly the
\* entries before it in the newest-first ledger (listed oldest first), and
\* empty when the checkpoint is the newest entry.
C5_PendingList ==
    LET C == lastResolve.C
        L == lastResolve.L.lines
    IN  outcome # "none" =>
          /\ ~Truthy(C) => tweet_ids = Reverse(L)
          /\ C \in Range(L) => tweet_ids = Reverse(SubSeq(L, 1, Index(L, C) - 1))
          /\ (L # <<>> /\ C = Head(L)) => tweet_ids = <<>>

\* C5 witness: the checkpoint is in the middle of the ledger
C5_Witness ==
    /\ outcome # "none"
    /\ lastResolve.C \in Range(lastResolve.L.lines)
    /\ Len(tweet_ids) >= 1
    /\ Len(tweet_ids) + 1 < Len(lastResolve.L.lines)

C7_CheckpointBeforeNext ==
    (pc = "archiving" /\ i > 1) =>
        stateFile = [exists |-> TRUE, content |-> tweet_ids[i - 1]]

\* C7 witness: archive_tweet is running on a later item of the run
C7_Witness == pc = "archiving" /\ i > 1

\* C8, as claimed: with a checkpoint that is not empty and not a ledger entry
\* the pending list is the whole ledger and the warning is printed.
C8_DanglingFallsBack ==
    LET C == lastResolve.C
        L == lastResolve.L.lines
    IN  (outcome # "none" /\ Truthy(C) /\ C \notin Range(L)) =>
          /\ tweet_ids = Reverse(L)
          /\ printed = "Warning: not found"

\* C8, amended: with a checkpoint that is not empty and not an entry of a
\* ledger that has entries the pending list is the whole ledger and the
\* warning is printed; with a missing or empty ledger file the pending list is
\* empty and the warning is not printed.
C8_DanglingFallsBackNonEmpty ==
    LET C == lastResolve.C
        L == lastResolve.L.lines
    IN  (outcome # "none" /\ Truthy(C) /\ C \notin Range(L)) =>
          IF L # <<>>
            THEN tweet_ids = Reverse(L) /\ printed = "Warning: not found"
            ELSE tweet_ids = <<>> /\ printed # "Warning: not found"

\* C8 witness: a run resolved a ledger of several entries with a stale checkpoint
C8_Witness ==
    /\ outcome # "none"
    /\ lastResolve.C = StaleId
    /\ Len(lastResolve.L.lines) >= 2
    /\ printed = "Warning: not found"

\* C9: when a collector run stops on overlap, every identifier of the feed
\* newer than an overlapping known identifier is in the ledger file it leaves.
C9_OverlapStopCoversNewer ==
    [][(CollectorExits /\ exitReason' = "overlap") =>
          \A k \in new_ids' \cap already_saved_tweet_ids :
              \A x \in Range(feed) :
                  Older(k, x, feed) => x \in Range(ledgerFile'.lines)]_vars

\* C9 witness: a run stopped on overlap with new identifiers, after an earlier
\* run that had left identifiers older than the overlap unrecorded
C9_Witness ==
    /\ pc = "idle" /\ exitReason = "overlap"
    /\ tweet_ids_this_run # <<>>
    /\ \E k \in new_ids \cap already_saved_tweet_ids :
         \E x \in Range(feed) \ Range(ledgerFile.lines) : Older(x, k, feed)

\* C10: the scan takes no further scroll-and-extract step after a batch that
\* holds an already saved identifier, the initial view included.
C10_StopsAtFirstOverlap ==
    pc = "scrolling" => ~Overlaps(new_ids, already_saved_tweet_ids)


\* C11: a collector run over a feed that never overlaps the known set stops
\* on its own once the passes that add nothing to tweet_ids_this_run recur:
\* the loop is not still running after MaxStall such passes in a row.
C11_StallStops ==
    (pc = "scrolling" /\ Range(feed) \cap already_saved_tweet_ids = {}) =>
        stalled < MaxStall

\* C12, as claimed: once the page is reported at its end the loop has stopped.
C12_StopsAtEnd == pc = "scrolling" => ~near_bottom

\* C12, amended: a pass that finds no overlap goes on to the next pass,
\* whether or not the page is at its end; the end of the page is only recorded
\* (and answered by a longer pause).
C12_GoesOnAtEnd ==
    [][(pc = "scrolling" /\ ~Overlaps(new_ids', already_saved_tweet_ids)
          /\ exitReason' \notin {"error", "interrupt", "killed"}) =>
          (pc' = "scrolling" /\ near_bottom' = NearBottom(view'))]_vars

\* C12 witness: the loop is running with the page at its end
C12_Witness == pc = "scrolling" /\ near_bottom /\ stalled >= 1


\* C13: on every exit of the collector loop (overlap stop, error raised by a
\* driver call, user interrupt) the ledger file is rewritten with the merge:
\* every identifier of tweet_ids_this_run is in the file afterwards, at its
\* front, and the file holds exactly the old entries and the new ones.
C13_ExitPersists ==
    [][(CollectorExits /\ exitReason' \in {"overlap", "error", "interrupt"}) =>
          LET this_run == tweet_ids_this_run'
          IN  /\ Range(this_run) \subseteq Range(ledgerFile'.lines)
              /\ SubSeq(ledgerFile'.lines, 1, Len(this_run)) = this_run
              /\ Range(ledgerFile'.lines) =
                     Range(ledgerFile.lines) \cup Range(this_run)
              /\ (this_run # <<>> => ledgerFile'.exists)]_vars

\* C13 witness: a run over a known ledger was ended by an error or an
\* interrupt with identifiers collected, and they are in the file
C13_Witness ==
    /\ pc = "idle" /\ exitReason \in {"error", "interrupt"}
    /\ tweet_ids_this_run # <<>> /\ already_saved_tweet_ids # {}
    /\ Range(tweet_ids_this_run) \subseteq Range(ledgerFile.lines)


\* C17, as claimed: a pass that raises is counted as a pass without a new
\* identifier and the loop goes on, so no run is ended by such a failure.
C17_FailureDoesNotEndRun == ~(pc = "idle" /\ pass_raised /\ new_ids # {})

\* C17, amended: a pass that raises ends the loop at once; the run is left
\* with the reason "error" and with the merge saved by the finally clause.
C17_FailureEndsRun ==
    [][(pc \in {"loaded", "scrolling"} /\ pass_raised') =>
          /\ pc' = "idle"
          /\ exitReason' = "error"
          /\ tweet_ids_this_run' = tweet_ids_this_run
          /\ Range(tweet_ids_this_run) \subseteq Range(ledgerFile'.lines)]_vars

\* C17 witness: a pass of the running loop raised after some passes that
\* went well, and the run is over
C17_Witness ==
    /\ pc = "idle" /\ pass_raised /\ exitReason = "error"
    /\ Len(tweet_ids_this_run) >= 2


\* C18: after any sequence of collector runs that starts without a ledger
\* file, no identifier is twice in the ledger file.
C18_NoDuplicate == ledgerFile.exists => NoDuplicates(ledgerFile.lines)

\* C18 witness: a run that went through several passes has been merged into
\* a ledger that had entries
C18_Witness ==
    /\ pc = "idle" /\ exitReason = "overlap"
    /\ Len(tweet_ids_this_run) >= 3 /\ already_saved_tweet_ids # {}
    /\ Range(tweet_ids_this_run) \subseteq Range(ledgerFile.lines)

\* C19: the ledger only grows: no step takes an identifier out of the
\* ledger file.
C19_OnlyGrows == [][Range(ledgerFile.lines) \subseteq Range(ledgerFile'.lines)]_vars

\* C19 witness: the file was rewritten by a run that had both old entries to
\* keep and new ones to add, and the old ones are still there
C19_Witness ==
    /\ pc = "idle" /\ exitReason \in {"overlap", "error", "interrupt"}
    /\ tweet_ids_this_run # <<>> /\ Cardinality(already_saved_tweet_ids) >= 2
    /\ already_saved_tweet_ids \subseteq Range(ledgerFile.lines)

\* C20: merging nothing is the identity: a run that leaves its loop with
\* tweet_ids_this_run empty leaves the ledger file as it was, entry for entry.
C20_EmptyRunIsIdentity ==
    [][(CollectorExits /\ tweet_ids_this_run' = <<>>) => ledgerFile' = ledgerFile]_vars

\* C20 witness: a run over a ledger of several entries found nothing new
C20_Witness ==
    /\ pc = "idle" /\ exitReason \in {"overlap", "error", "interrupt"}
    /\ tweet_ids_this_run = <<>> /\ new_ids # {}
    /\ Len(ledgerFile.lines) >= 2


\* C14, as claimed: the ledger file is rewritten with the merge every
\* PersistEvery passes of the loop: when that many passes are done the file
\* holds every identifier of tweet_ids_this_run.
C14_PeriodicPersist ==
    (pc = "scrolling" /\ scroll_count = PersistEvery) =>
        Range(tweet_ids_this_run) \subseteq Range(ledgerFile.lines)

\* C14, amended: no pass of the loop writes the ledger file; it is written
\* only when the loop is left by overlap, error or interrupt, so a process
\* killed inside the loop leaves the file as it was when the run started.
C14_SavedOnlyOnExit ==
    [][(pc \in {"loaded", "scrolling"} /\ (pc' = "scrolling" \/ exitReason' = "killed"))
          => ledgerFile' = ledgerFile]_vars

\* C14 witness: a run that had collected identifiers over several passes was
\* killed, and none of them is in the ledger file
C14_Witness ==
    /\ pc = "idle" /\ exitReason = "killed"
    /\ Len(tweet_ids_this_run) >= 3
    /\ Range(tweet_ids_this_run) \cap Range(ledgerFile.lines) = {}


\* C15: persisting the ledger is atomic with respect to interruption: when
\* the process is killed the ledger file is the complete previous sequence or
\* the complete new one, never an empty or truncated one.
C15_AtomicPersist ==
    [][(pc \in {"loaded", "scrolling"} /\ exitReason' = "killed") =>
          ledgerFile' \in {ledgerFile} \cup save_tweet_ids(tweet_ids_this_run, ledgerFile)]_vars

\* C16: a failure to write the ledger file or the checkpoint file reaches the
\* caller of that save as an error; none is swallowed.
C16_WriteFailureSurfaced == persist_error # "swallowed"


\* C21, as claimed: merging B1 and then B2 into L gives the ledger sequence
\* that merging B1 followed by B2 in one step gives.
C21_MergeInTwoIsMergeInOne ==
    pc = "merged twice" => ledgerFile \in MergedInOne(given.L, given.B1, given.B2)

\* C21, amended: the two ledgers list the same identifiers, each once, but
\* not in the same order: after two runs the ledger starts with the new
\* identifiers of B2, after one run with those of B1 followed by those of B2.
C21_MergeInTwoSameSet ==
    pc = "merged twice" =>
        LET saved == load_existing_tweet_ids(given.L)
            new1 == RunOf(<<given.B1>>, saved)
            new2 == RunOf(<<given.B2>>, saved \cup Range(new1))
        IN  /\ NoDuplicates(ledgerFile.lines)
            /\ SubSeq(ledgerFile.lines, 1, Len(new2)) = new2
            /\ Range(ledgerFile.lines) = saved \cup Range(new1) \cup Range(new2)
            /\ \A g \in MergedInOne(given.L, given.B1, given.B2) :
                  /\ Range(g.lines) = Range(ledgerFile.lines)
                  /\ NoDuplicates(g.lines)
                  /\ SubSeq(g.lines, 1, Len(new1 \o new2)) = new1 \o new2

\* C21 witness: both batches brought identifiers the ledger did not have
C21_Witness ==
    /\ pc = "merged twice" /\ given.L.lines # <<>>
    /\ Range(given.B1) \ Range(given.L.lines) # {}
    /\ tweet_ids_this_run # <<>>
    /\ ledgerFile \notin MergedInOne(given.L, given.B1, given.B2)


C23_NothingLeftBehind ==
    (pc = "idle" /\ NextPending = <<>>) => Range(ledgerFile.lines) \subseteq archived


\* C24, as claimed: the checkpoint is advanced to X only when both the
\* screenshot and the media download of X succeeded.
C24_CheckpointOnlyOnFullSuccess ==
    [][(pc = "archiving" /\ new_archives' # new_archives) =>
          (steps'.screenshot /\ steps'.media)]_vars

\* C24, amended: the checkpoint is advanced to X exactly when archive_tweet
\* returned success for X, which it does when at least one of the two steps
\* succeeded and nothing raised outside them; it is left alone otherwise.
C24_CheckpointOnSomeSuccess ==
    [][(pc = "archiving" /\ pc' # "archiving") =>
          IF ~steps'.raised /\ (steps'.screenshot \/ steps'.media)
            THEN stateFile' = [exists |-> TRUE, content |-> tweet_ids[i]]
            ELSE stateFile' = stateFile]_vars

\* C24 witness: the checkpoint is an item whose media download failed
C24_Witness ==
    /\ pc \in {"idle", "delay"} /\ new_archives >= 1
    /\ steps.screenshot /\ ~steps.media
    /\ stateFile.content = tweet_ids[i]


\* C25: from a fresh installation, through any collector and processor runs,
\* the checkpoint is absent or is an entry of the ledger file.
C25_CheckpointInLedger ==
    stateFile.exists => stateFile.content \in Range(ledgerFile.lines)

\* C25 witness: the ledger was rewritten by a collector run after the
\* checkpoint was written, and the checkpoint is no longer its newest entry
C25_Witness ==
    /\ pc = "idle" /\ stateFile.exists /\ exitReason = "overlap"
    /\ tweet_ids_this_run # <<>> /\ ledgerFile # lastResolve.L
    /\ stateFile.content \in Range(ledgerFile.lines)
    /\ stateFile.content # ledgerFile.lines[1]


\* C26: when a processor run is interrupted by the user, during an archive
\* call, during the checkpoint write or during the delay, the checkpoint file
\* holds the identifier of the last item archived in that run, or its value
\* of before the run if there is none; it is never left empty.
C26_InterruptKeepsCheckpoint ==
    (pc = "idle" /\ outcome = "interrupted") =>
        get_last_archived_id(stateFile) \in
            {tweet_ids[i],
             IF new_archives >= 1 THEN tweet_ids[new_archives] ELSE lastResolve.C}


\* C27: in a chained invocation the processor starts only after the collector
\* has returned with its run saved, and resolves its pending list from that
\* ledger file; with --fetch-only the processor is never invoked and with
\* --archive-only the collector is never invoked.
C27_ChainOrder ==
    [][/\ (pc' \in {"archive_main", "archiving", "delay"} \/ lastResolve' # lastResolve)
            => ~chain'.fetch_only
       /\ pc' \in {"fetch_likes_main", "loaded", "scrolling"} => ~chain'.archive_only
       /\ (pc = "archive_main" /\ pc' # pc /\ ~chain.archive_only) =>
             /\ exitReason \in {"overlap", "error"}
             /\ Range(tweet_ids_this_run) \subseteq Range(ledgerFile.lines)
             /\ lastResolve'.L = ledgerFile]_vars

\* C27 witness: in an invocation without options the collector has added
\* identifiers to the ledger and the processor is archiving them
C27_Witness ==
    /\ chain.at = "archive_likes" /\ ~chain.archive_only /\ ~chain.fetch_only
    /\ pc = "delay" /\ Len(tweet_ids_this_run) >= 2 /\ already_saved_tweet_ids # {}
    /\ Range(tweet_ids) \subseteq Range(tweet_ids_this_run)


\* C28: in a processor run the delay is taken between two consecutive
\* archive_tweet calls and only after a success: a call starts at the start
\* of the run or when the delay after the previous call is over, the delay
\* starts only when a call has returned success on an item that is not the
\* last, and a failure or the last item ends the run without a delay.
C28_DelayBetweenSuccesses ==
    [][/\ (pc' = "archiving" /\ pc # "archiving") =>
             \/ pc = "idle" /\ i' = 1
             \/ pc = "delay" /\ i' = i + 1 /\ new_archives = i
       /\ ~(pc = "archiving" /\ pc' = "archiving")
       /\ (pc' = "delay" /\ pc # "delay") =>
             /\ pc = "archiving" /\ new_archives' = new_archives + 1
             /\ failed' = "" /\ i < Len(tweet_ids)
       /\ (pc = "archiving" /\ (failed' # "" \/ i = Len(tweet_ids))) => pc' = "idle"]_vars

\* C28 witness: the second delay of a run is on
C28_Witness == pc = "delay" /\ i = 2 /\ new_archives = 2 /\ Len(tweet_ids) >= 3


\* C29: a processor run makes at most one archive_tweet call per pending item
\* and ends either completed, with every pending item archived, or halted, at
\* its first failure; the number it reports is the number of calls that
\* returned success, and a run with nothing pending makes no call and leaves
\* the checkpoint as it was.
C29_RunOutcome ==
    /\ pc \in {"archiving", "delay"} =>
          /\ outcome = "running" /\ failed = ""
          /\ i \in 1..Len(tweet_ids)
          /\ new_archives = IF pc = "delay" THEN i ELSE i - 1
    /\ pc = "idle" => outcome \in {"none", "nothing", "completed", "halted"}
    /\ (pc = "idle" /\ outcome = "completed") =>
          /\ tweet_ids # <<>> /\ failed = ""
          /\ i = Len(tweet_ids) /\ new_archives = Len(tweet_ids)
          /\ Range(tweet_ids) \subseteq archived
    /\ (pc = "idle" /\ outcome = "halted") =>
          /\ failed = tweet_ids[i] /\ new_archives = i - 1
    /\ (pc = "idle" /\ outcome = "nothing") =>
          /\ tweet_ids = <<>> /\ i = 0 /\ new_archives = 0
          /\ get_last_archived_id(stateFile) = lastResolve.C

\* C29 witness: a run over three or more pending items has completed
C29_Witness ==
    /\ pc = "idle" /\ outcome = "completed"
    /\ Len(tweet_ids) >= 3 /\ new_archives = Len(tweet_ids)


\* C30: archive_tweet never raises to the processor: however its steps end,
\* main goes on with a flag, which is failure exactly when both steps failed
\* or an exception occurred outside them, and success otherwise.
C30_ArchiveOutcome ==
    [][(pc = "archiving" /\ pc' # pc) =>
          IF steps'.raised \/ (~steps'.screenshot /\ ~steps'.media)
            THEN /\ failed' = tweet_ids[i] /\ new_archives' = new_archives
                 /\ outcome' = "halted" /\ pc' = "idle"
            ELSE /\ failed' = "" /\ new_archives' = new_archives + 1
                 /\ tweet_ids[i] \in archived'
                 /\ outcome' \in {"running", "completed"}]_vars

\* C30 witness: an exception outside the two steps ended a run as a failure
\* of its second item
C30_Witness ==
    /\ pc = "idle" /\ outcome = "halted" /\ steps.raised
    /\ i = 2 /\ failed = tweet_ids[2]


\* C31: at every point of a collector run tweet_ids_this_run has no duplicates,
\* is disjoint from already_saved_tweet_ids as loaded at the start of the run
\* and keeps the identifiers in the order they were first met (down the likes
\* page); an extraction appends exactly the identifiers of its batch that are
\* in neither of the two, in the order of the batch, the batch that triggers
\* the overlap stop included.
C31_ThisRunAccumulates ==
    [][/\ NoDuplicates(tweet_ids_this_run')
       /\ Range(tweet_ids_this_run') \cap already_saved_tweet_ids' = {}
       /\ \A m, n \in 1..Len(tweet_ids_this_run') :
             m < n => Older(tweet_ids_this_run'[n], tweet_ids_this_run'[m], feed')
       /\ pc \in {"loaded", "scrolling"} =>
             /\ already_saved_tweet_ids' = already_saved_tweet_ids
             /\ new_ids' # new_ids \/ tweet_ids_this_run' # tweet_ids_this_run =>
                  /\ new_ids' = Range(Visible(view'))
                  /\ tweet_ids_this_run' = tweet_ids_this_run \o
                        SelectSeq(Visible(view'),
                                  LAMBDA t : /\ t \notin already_saved_tweet_ids
                                             /\ t \notin Range(tweet_ids_this_run))
                  /\ Range(tweet_ids_this_run') =
                        Range(tweet_ids_this_run) \cup
                           (new_ids' \ already_saved_tweet_ids)]_vars

\* C31 witness: the run stopped on a batch that overlaps the known set and
\* whose last tweet element, which that scroll brought into the DOM, was
\* appended to tweet_ids_this_run by the same extraction
C31_Witness ==
    /\ pc = "idle" /\ exitReason = "overlap"
    /\ view >= 2
    /\ new_ids = Range(Visible(view))
    /\ new_ids \cap already_saved_tweet_ids # {}
    /\ tweet_ids_this_run # <<>>
    /\ tweet_ids_this_run[Len(tweet_ids_this_run)] = Visible(view)[Len(Visible(view))]


\* C32: no step of a processor run changes the ledger file and no step of a
\* collector run changes the checkpoint file; the steps that start a run only
\* read, so they change neither file.
C32_StagesKeepApart ==
    [][/\ pc \in {"archiving", "delay"} => ledgerFile' = ledgerFile
       /\ pc \in {"loaded", "scrolling"} => stateFile' = stateFile
       /\ pc = "idle" => (ledgerFile' = ledgerFile /\ stateFile' = stateFile)
       /\ ledgerFile' = ledgerFile \/ stateFile' = stateFile]_vars

\* C32 witness: a processor run has written the checkpoint file and a later
\* collector run has merged new identifiers into the ledger file below them
C32_Witness ==
    /\ pc = "idle" /\ exitReason = "overlap" /\ tweet_ids_this_run # <<>>
    /\ outcome = "completed" /\ new_archives >= 1
    /\ stateFile.exists /\ stateFile.content \in Range(ledgerFile.lines)
    /\ Len(ledgerFile.lines) > Len(tweet_ids_this_run)
    /\ stateFile.content \notin Range(tweet_ids_this_run)


\* C33: a collector run started for the ledger file F loads its known set from
\* F and, when it leaves scroll_and_extract, has merged its new identifiers
\* into F and left any other ledger file as it was.
C33_SameFile ==
    [][/\ (pc = "idle" /\ pc' = "loaded") =>
             already_saved_tweet_ids' =
                load_existing_tweet_ids(FileNamed(started'.F))
       /\ (pc \in {"loaded", "scrolling"} /\ pc' = "idle") =>
             IF started.F = DefaultFile
               THEN /\ ledgerFile' \in save_tweet_ids(tweet_ids_this_run', ledgerFile)
                    /\ otherFile' = otherFile
               ELSE /\ otherFile' \in save_tweet_ids(tweet_ids_this_run', otherFile)
                    /\ ledgerFile' = ledgerFile]_vars

====
